---- MODULE Spec2Model ----
(***************************************************************************)
(* A model of rollcron: the Directory Materializer (git.rs), the Executor  *)
(* (scheduler/executor.rs), the process entry point (main.rs) and the      *)
(* Scheduler's concurrency policy.                                         *)
(*                                                                         *)
(* A file name is a sequence of tokens; a token is a run of characters     *)
(* without '.', or the single character ".".  A path is a sequence of      *)
(* file names, read from the filesystem root.                              *)
(***************************************************************************)
EXTENDS Integers, Sequences, FiniteSets, TLC

VARIABLES
    \* ---- path derivation (git.rs get_job_dir, sync_to_job_dir l.150)
    sotName, idA, idB, pathsOf,
    \* ---- working directory resolution (executor.rs resolve_work_dir)
    rfs, rwd, rres,
    \* ---- one execute_job call (executor.rs execute_job, run_command)
    ejob, epc, attempt, eresult, eprocs, elog, etrace,
    \* ---- the Scheduler's run state, and the process (main.rs main)
    trigs, started, running, units, pending, deferred, mainPc, cancelled,
    \* ---- the Scheduler's job registry under ConfigUpdate
    registry, nextFire, orphans, reloads,
    \* ---- sync_to_job_dir calls for one job, and a reader of its job_dir
    sjob, sotKind, sotVer, sfs, spc, sbefore, tbefore, failedAt, calls, materialized, robs,
    \* ---- the Sync Driver (main.rs l.70-111), the SOT mirror and the mailbox
    dpc, ticks, srcKind, upVer, mirror, mirrorAtTick, loaded, sent, sentAtTick,
    handled, schedUp, outcomes, reported,
    \* ---- the startup of the process (main.rs l.48-69)
    boot

pathVars == <<sotName, idA, idB, pathsOf>>
resVars == <<rfs, rwd, rres>>
execVars == <<ejob, epc, attempt, eresult, eprocs, elog, etrace>>
reloadVars == <<registry, nextFire, orphans, reloads>>
schedVars == <<trigs, started, running, units, pending, deferred, mainPc, cancelled,
               reloadVars>>
syncVars == <<sjob, sotKind, sotVer, sfs, spc, sbefore, tbefore, failedAt, calls,
              materialized, robs>>
driverVars == <<dpc, ticks, srcKind, upVer, mirror, mirrorAtTick, loaded, sent,
                sentAtTick, handled, schedUp, outcomes, reported>>
bootVars == <<boot>>
vars == <<pathVars, resVars, execVars, schedVars, syncVars, driverVars, bootVars>>

\* ------------------------------------------------------------------ bounds
MaxIdLen == 3
MaxWdLen == 3
MaxRetry == 2
MaxJitter == 1
MaxChildren == 2
MaxTriggers == 3
MaxSyncs == 3
MaxVer == 2
NumFiles == 2
MaxReloads == 2
MaxTicks == 3

\* ------------------------------------------------------------ small helpers
RECURSIVE SeqsUpTo(_, _)
SeqsUpTo(S, n) ==
    IF n = 0 THEN {<<>>}
    ELSE LET shorter == SeqsUpTo(S, n - 1)
         IN shorter \cup {Append(s, x) : s \in {t \in shorter : Len(t) = n - 1}, x \in S}

IsPrefix(p, q) == Len(p) <= Len(q) /\ SubSeq(q, 1, Len(p)) = p

None == [some |-> FALSE]
Some(v) == [some |-> TRUE, val |-> v]

\* ------------------------------------------------------- names and paths
Dot == "."
NameTokens == {"a", "b", Dot, "tmp"}
\* Job ids: the names that neither start nor end with '.'.
JobIds ==
    {id \in SeqsUpTo(NameTokens, MaxIdLen) :
        id # <<>> /\ id[1] # Dot /\ id[Len(id)] # Dot}
SotNames == {<<"r">>, <<"r", Dot, "x">>, <<Dot, "r">>}

cache_base == << <<"cache">> >>

\* git.rs l.128-139: cache_base/"{sot_name}@{job_id}"
get_job_dir(sot, job_id) == Append(cache_base, sot \o <<"@">> \o job_id)

LastDot(name) ==
    LET dots == {i \in 1..Len(name) : name[i] = Dot}
    IN IF dots = {} THEN 0 ELSE CHOOSE i \in dots : \A k \in dots : k <= i

\* Path::file_stem: the name up to its last '.', the whole name when it has no
\* '.', when its only '.' is the first character, or when it is "..".
file_stem(name) ==
    LET d == LastDot(name)
    IN IF name = <<Dot, Dot>> \/ d <= 1 THEN name ELSE SubSeq(name, 1, d - 1)

\* Path::with_extension: the last component's stem, then "." and the extension.
with_extension(path, ext) ==
    LET name == path[Len(path)]
    IN IF name = <<Dot, Dot>> THEN path
       ELSE [path EXCEPT ![Len(path)] = file_stem(name) \o <<Dot, ext>>]

\* git.rs l.150
temp_dir_of(job_dir) == with_extension(job_dir, "tmp")

\* The directories sync_to_job_dir touches for one job.
TouchedPaths(sot, job_id) ==
    {get_job_dir(sot, job_id), temp_dir_of(get_job_dir(sot, job_id))}

\* The path derivation two materializations (one per job id) start with.
DerivePaths ==
    /\ ~pathsOf.some
    /\ pathsOf' = Some([a |-> TouchedPaths(sotName, idA),
                        b |-> TouchedPaths(sotName, idB)])
    /\ UNCHANGED <<sotName, idA, idB, resVars, execVars, schedVars, syncVars,
                   driverVars, bootVars>>

PathsNext == DerivePaths

\* ----------------------------------------- working directory resolution
DotDot == <<Dot, Dot>>
RSot == <<"r">>
RJob == <<"a">>
RJobDir == get_job_dir(RSot, RJob)
RSibling == get_job_dir(RSot, <<"a", "b">>)
EtcDir == << <<"etc">> >>
SubDir == Append(RJobDir, <<"sub">>)

WdComponents ==
    {DotDot, <<"sub">>, <<"out">>, <<"in">>, <<"nope">>, <<"etc">>, RSibling[2]}

DataDir == << <<"data">> >>

\* Where a path below cache_base really is, when the cache directory is real
\* and when it is a symbolic link to DataDir.
RealOf(cacheLinked, p) ==
    IF cacheLinked THEN DataDir \o SubSeq(p, Len(cache_base) + 1, Len(p)) ELSE p

\* A filesystem: the directories, the symbolic links with their targets, and
\* (for reference) where the job directory really is.
FsOf(jobDirExists, outTarget, cacheLinked) ==
    LET jd == RealOf(cacheLinked, RJobDir)
        sub == RealOf(cacheLinked, SubDir)
    IN [dirs |-> {<<>>, EtcDir, RealOf(cacheLinked, cache_base),
                  RealOf(cacheLinked, RSibling)}
                   \cup (IF jobDirExists THEN {jd, sub} ELSE {}),
        links |-> (IF jobDirExists
                   THEN (Append(jd, <<"out">>) :>
                            (IF outTarget = SubDir THEN sub ELSE outTarget))
                          @@ (Append(jd, <<"in">>) :> sub)
                   ELSE <<>>)
                  @@ (IF cacheLinked THEN (cache_base :> DataDir) ELSE <<>>),
        realJobDir |-> jd]

Err == [ok |-> FALSE, path |-> <<>>]
Ok(p) == [ok |-> TRUE, path |-> p]

\* fs::canonicalize: every component must exist; ".." steps up, a symbolic
\* link is replaced by its target.
RECURSIVE CanonFrom(_, _, _)
CanonFrom(fs, cur, rest) ==
    IF rest = <<>> THEN Ok(cur)
    ELSE LET c == Head(rest)
             p == Append(cur, c)
         IN IF c = DotDot
            THEN CanonFrom(fs, IF cur = <<>> THEN cur ELSE SubSeq(cur, 1, Len(cur) - 1),
                           Tail(rest))
            ELSE IF p \in fs.dirs THEN CanonFrom(fs, p, Tail(rest))
            ELSE IF p \in DOMAIN fs.links THEN CanonFrom(fs, fs.links[p], Tail(rest))
            ELSE Err

canonicalize(fs, path) == CanonFrom(fs, <<>>, path)

\* Path::join: an absolute argument replaces the base.
PathJoin(base, dir) == IF dir.abs THEN dir.comps ELSE base \o dir.comps

\* Path::starts_with: component-wise prefix.
starts_with(p, base) == IsPrefix(base, p)

\* executor.rs l.19: the guard of the accepting match arm.
AcceptResolvedLax(resolved, base) == resolved.ok /\ base.ok
AcceptResolved(resolved, base) ==
    resolved.ok /\ base.ok /\ starts_with(resolved.path, base.path)

\* executor.rs l.12-31
resolve_work_dir(fs, sot, job_id, working_dir) ==
    LET job_dir == get_job_dir(sot, job_id)
    IN IF working_dir.some
       THEN LET work_path == PathJoin(job_dir, working_dir.val)
                resolved == canonicalize(fs, work_path)
                base == canonicalize(fs, job_dir)
            IN IF AcceptResolved(resolved, base) THEN resolved.path ELSE job_dir
       ELSE job_dir

WorkingDirs ==
    {None} \cup {Some([abs |-> a, comps |-> c]) :
                    a \in BOOLEAN, c \in SeqsUpTo(WdComponents, MaxWdLen)}

Resolve ==
    /\ ~rres.some
    /\ rres' = Some(resolve_work_dir(rfs, RSot, RJob, rwd))
    /\ UNCHANGED <<rfs, rwd, pathVars, execVars, schedVars, syncVars,
                   driverVars, bootVars>>

ResNext == Resolve


\* --------------------------------------------------------------- Executor
Completed(code) == [kind |-> "Completed", code |-> code, why |-> ""]
ExecError(why) == [kind |-> "ExecError", code |-> -1, why |-> why]
Timeout == [kind |-> "Timeout", code |-> -1, why |-> ""]
NoResult == [kind |-> "none", code |-> -1, why |-> ""]

ExitCodes == {0, 1}
EnvFileStates == {"missing", "valid", "malformed"}

\* The variables a .env file that parses defines.
EnvVars == {"KEY"}

\* env.rs l.26-39: a path that does not exist gives an empty map; a file
\* that does not parse gives an error.
load_env_from_path_missing_fails(env) ==
    IF env = "valid" THEN [ok |-> TRUE, vars |-> EnvVars] ELSE [ok |-> FALSE, vars |-> {}]
load_env_from_path(env) ==
    IF env = "missing" THEN [ok |-> TRUE, vars |-> {}]
    ELSE IF env = "malformed" THEN [ok |-> FALSE, vars |-> {}]
    ELSE [ok |-> TRUE, vars |-> EnvVars]

NoProcs == [shell |-> "none", kids |-> 0]

Jobs ==
    [retry : {None} \cup {Some(n) : n \in 0..MaxRetry},
     jitter : {None} \cup {Some(d) : d \in 0..MaxJitter}]

Logged(ev, n, res) == [ev |-> ev, n |-> n, res |-> res]

\* backoff.rs generate_jitter: a duration in [0, max].
generate_jitter(max) == 0..max

\* executor.rs l.45
max_attempts_short(job) == IF job.retry.some THEN job.retry.val ELSE 1
max_attempts(job) == IF job.retry.some THEN job.retry.val + 1 ELSE 1

\* executor.rs l.126-152: success is a completion whose status is success.
handle_result_any_exit(result) == result.kind = "Completed"
handle_result(result) == result.kind = "Completed" /\ result.code = 0

\* executor.rs l.62-64: the loop goes on unless the attempt succeeded.
LoopGoesOnAlways(success) == TRUE
LoopGoesOn(success) == ~success

\* executor.rs l.47-69: a failed attempt goes to the next iteration of the
\* for loop; the jitter of l.36-43 is before the loop.
retry_from_jitter == "jitter"
retry_from == "loop"

\* executor.rs l.47: the loop variable of `for attempt in 0..max_attempts`.
next_attempt_stuck(n) == n
next_attempt(n) == n + 1

\* executor.rs l.48-50: a retry sleeps calculate_backoff(retry, attempt - 1).
backoff_index_same(n) == n
backoff_index(n) == n - 1

\* What run_command did, in order: each read of the .env file and each spawn
\* of the command, with the attempt it belongs to.
EnvRead(n, env) == [ev |-> "env", n |-> n, file |-> env, vars |-> {}, ok |-> FALSE]
Spawned(n, envs, ok) == [ev |-> "spawn", n |-> n, file |-> "", vars |-> envs, ok |-> ok]

\* executor.rs l.74-92: the overrides given to the command are the ones read
\* in the same call of run_command.
LastEnvVars == load_env_from_path(etrace[Len(etrace)].file).vars

\* executor.rs l.36-43: the startup jitter, slept when it is positive.
ApplyJitter ==
    /\ epc = "jitter"
    /\ \/ /\ ejob.jitter.some
          /\ \E jitter \in generate_jitter(ejob.jitter.val) :
                elog' = IF jitter > 0
                        THEN Append(elog, Logged("jitter", jitter, NoResult))
                        ELSE elog
       \/ /\ ~ejob.jitter.some
          /\ elog' = elog
    /\ epc' = "loop"
    /\ UNCHANGED <<etrace, ejob, attempt, eresult, eprocs, pathVars, resVars, schedVars, syncVars,
                   driverVars, bootVars>>

\* executor.rs l.47-57: the loop test, and the backoff sleep of a retry.
LoopHead ==
    /\ epc = "loop"
    /\ IF attempt < max_attempts(ejob)
       THEN /\ elog' = IF attempt > 0 /\ ejob.retry.some
                       THEN Append(elog, Logged("backoff", backoff_index(attempt), NoResult))
                       ELSE elog
            /\ epc' = "env"
       ELSE /\ elog' = elog
            /\ epc' = "returned"
    /\ UNCHANGED <<etrace, ejob, attempt, eresult, eprocs, pathVars, resVars, schedVars, syncVars,
                   driverVars, bootVars>>

\* executor.rs l.74-79 and env.rs l.26-39: the .env file is read; a missing
\* file gives no overrides, a file that does not parse ends the attempt.
LoadEnv ==
    /\ epc = "env"
    /\ \E env \in EnvFileStates :
          /\ etrace' = Append(etrace, EnvRead(attempt, env))
          /\ IF load_env_from_path(env).ok
             THEN /\ eresult' = NoResult
                  /\ epc' = "spawn"
             ELSE /\ eresult' = ExecError("env")
                  /\ epc' = "handle"
    /\ UNCHANGED <<ejob, attempt, eprocs, elog, pathVars, resVars, schedVars, syncVars,
                   driverVars, bootVars>>

\* executor.rs l.81-96: sh -c <command> is spawned, or the spawn fails.
Spawn ==
    /\ epc = "spawn"
    /\ \/ /\ eprocs' = [shell |-> "alive", kids |-> 0]
          /\ etrace' = Append(etrace, Spawned(attempt, LastEnvVars, TRUE))
          /\ epc' = "wait"
          /\ eresult' = eresult
       \/ /\ eresult' = ExecError("spawn")
          /\ etrace' = Append(etrace, Spawned(attempt, LastEnvVars, FALSE))
          /\ epc' = "handle"
          /\ eprocs' = eprocs
    /\ UNCHANGED <<ejob, attempt, elog, pathVars, resVars, schedVars, syncVars,
                   driverVars, bootVars>>

\* The shell starts a child process of its own (a command of the job's
\* command line); a child ends by itself.
ShellFork ==
    /\ epc = "wait"
    /\ eprocs.shell = "alive"
    /\ eprocs.kids < MaxChildren
    /\ eprocs' = [eprocs EXCEPT !.kids = @ + 1]
    /\ UNCHANGED <<etrace, ejob, epc, attempt, eresult, elog, pathVars, resVars, schedVars, syncVars,
                   driverVars, bootVars>>

ChildExit ==
    /\ eprocs.kids > 0
    /\ eprocs' = [eprocs EXCEPT !.kids = @ - 1]
    /\ UNCHANGED <<etrace, ejob, epc, attempt, eresult, elog, pathVars, resVars, schedVars, syncVars,
                   driverVars, bootVars>>

\* executor.rs l.98-104: the outcome of timeout(job.timeout, wait_with_output).
\* On expiry the future, and the Child in it, is dropped: kill_on_drop (l.86)
\* kills the process that was spawned, the shell.
WaitChild ==
    /\ epc = "wait"
    /\ \/ \E code \in ExitCodes :
            /\ eresult' = Completed(code)
            /\ eprocs' = [eprocs EXCEPT !.shell = "exited"]
       \/ /\ eresult' = ExecError("wait")
          /\ eprocs' = [eprocs EXCEPT !.shell = "killed"]
       \/ /\ eresult' = Timeout
          /\ eprocs' = [eprocs EXCEPT !.shell = "killed"]
    /\ epc' = "handle"
    /\ UNCHANGED <<etrace, ejob, attempt, elog, pathVars, resVars, schedVars, syncVars,
                   driverVars, bootVars>>

\* executor.rs l.59-69: the result is classified; success returns, a failure
\* goes to the next iteration.
HandleResult ==
    /\ epc = "handle"
    /\ LET success == handle_result(eresult)
       IN /\ elog' = Append(elog, Logged("attempt", attempt, eresult))
          /\ IF LoopGoesOn(success)
             THEN /\ attempt' = next_attempt(attempt)
                  /\ epc' = retry_from
             ELSE /\ attempt' = attempt
                  /\ epc' = "returned"
    /\ UNCHANGED <<etrace, ejob, eresult, eprocs, pathVars, resVars, schedVars, syncVars,
                   driverVars, bootVars>>

ExecNext ==
    \/ ApplyJitter
    \/ LoopHead
    \/ LoadEnv
    \/ Spawn
    \/ ShellFork
    \/ ChildExit
    \/ WaitChild
    \/ HandleResult


\* ------------------------------------------- Scheduler run state and main
SchedJobs == {"s", "q", "p"}
PolicyOf(j) == CASE j = "s" -> "skip" [] j = "q" -> "queue" [] OTHER -> "parallel"

\* Concurrency policy: whether a trigger starts a run at once.
may_start_always(policy, inflight) == TRUE
may_start(policy, inflight) == policy = "parallel" \/ inflight = 0

\* queue: the trigger is deferred, at most one trigger pending.
queue_pending_unbounded(n) == n + 1
queue_pending(n) == IF n < 1 THEN n + 1 ELSE n

\* Tick loop: the registered job j is due. Its next-fire time is advanced, and
\* the policy decides between starting an execution unit, deferring the
\* trigger and dropping it.
Trigger(j) ==
    /\ mainPc = "running"
    /\ j \in registry
    /\ trigs[j] < MaxTriggers
    /\ trigs' = [trigs EXCEPT ![j] = @ + 1]
    /\ nextFire' = [nextFire EXCEPT ![j] = Some(@.val + 1)]
    /\ IF may_start(PolicyOf(j), running[j])
       THEN /\ running' = [running EXCEPT ![j] = @ + 1]
            /\ units' = [units EXCEPT ![j] = @ + 1]
            /\ started' = [started EXCEPT ![j] = @ + 1]
            /\ deferred' = [deferred EXCEPT ![j] = 0]
            /\ pending' = pending
       ELSE /\ IF PolicyOf(j) = "queue"
               THEN /\ pending' = [pending EXCEPT ![j] = queue_pending(@)]
                    /\ deferred' = [deferred EXCEPT ![j] = @ + 1]
               ELSE UNCHANGED <<pending, deferred>>
            /\ UNCHANGED <<running, units, started>>
    /\ UNCHANGED <<mainPc, cancelled, registry, orphans, reloads, pathVars, resVars, execVars, syncVars,
                   driverVars, bootVars>>

\* An execution unit of job j ends; its completion is on its way to the
\* Scheduler's mailbox.
Finish(j) ==
    /\ mainPc = "running"
    /\ units[j] > 0
    /\ units' = [units EXCEPT ![j] = @ - 1]
    /\ UNCHANGED <<trigs, started, running, pending, deferred, mainPc, cancelled,
                   reloadVars, pathVars, resVars, execVars, syncVars,
                   driverVars, bootVars>>

\* The Scheduler handles a completion of job j: the run state is cleared, and
\* a deferred trigger starts its run.
HandleCompletion(j) ==
    /\ mainPc = "running"
    /\ running[j] > units[j]
    /\ IF PolicyOf(j) = "queue" /\ pending[j] > 0
       THEN /\ pending' = [pending EXCEPT ![j] = @ - 1]
            /\ units' = [units EXCEPT ![j] = @ + 1]
            /\ started' = [started EXCEPT ![j] = @ + 1]
            /\ deferred' = [deferred EXCEPT ![j] = 0]
            /\ running' = running
       ELSE /\ running' = [running EXCEPT ![j] = @ - 1]
            /\ UNCHANGED <<pending, units, started, deferred>>
    /\ UNCHANGED <<trigs, mainPc, cancelled, reloadVars, pathVars, resVars, execVars, syncVars,
                   driverVars, bootVars>>

\* main.rs l.113-126: the ctrl_c arm of select! logs, and main returns. The
\* runtime is dropped with it: every task is dropped at its await point, and
\* each command still running is killed with its Child (kill_on_drop).
Interrupt ==
    /\ mainPc = "running"
    /\ mainPc' = "exited"
    /\ cancelled' = [j \in SchedJobs |-> units[j] + orphans[j]]
    /\ units' = [j \in SchedJobs |-> 0]
    /\ orphans' = [j \in SchedJobs |-> 0]
    /\ UNCHANGED <<trigs, started, running, pending, deferred, registry, nextFire, reloads,
                   pathVars, resVars, execVars, syncVars,
                   driverVars, bootVars>>

SchedNext ==
    \/ \E j \in SchedJobs : Trigger(j)
    \/ \E j \in SchedJobs : Finish(j)
    \/ \E j \in SchedJobs : HandleCompletion(j)
    \/ Interrupt

\* ConfigUpdate(jobs, runner) replaces the job registry. The run state of a
\* job in both lists is kept; a job that is removed or added has none, or a
\* fresh one.
reload_count_reset(inOld, inNew, cur) == 0
reload_count(inOld, inNew, cur) == IF inOld /\ inNew THEN cur ELSE 0

\* A job of the new list keeps its next-fire time when it was registered
\* before, and gets a freshly computed one otherwise.
reload_next_fire(inOld, inNew, cur) ==
    IF ~inNew THEN None ELSE IF inOld THEN cur ELSE Some(0)

\* The runs in flight of a removed job are left to finish; they belong to no
\* registered job any more.
reload_orphans(inOld, inNew, cur, inflight) ==
    IF inOld /\ ~inNew THEN cur + inflight ELSE cur

ApplyConfigUpdate(jobs) ==
    /\ registry' = jobs
    /\ running' = [j \in SchedJobs |-> reload_count(j \in registry, j \in jobs, running[j])]
    /\ pending' = [j \in SchedJobs |-> reload_count(j \in registry, j \in jobs, pending[j])]
    /\ deferred' = [j \in SchedJobs |-> reload_count(j \in registry, j \in jobs, deferred[j])]
    /\ units' = [j \in SchedJobs |-> reload_count(j \in registry, j \in jobs, units[j])]
    /\ orphans' = [j \in SchedJobs |->
                      reload_orphans(j \in registry, j \in jobs, orphans[j], units[j])]
    /\ nextFire' = [j \in SchedJobs |->
                       reload_next_fire(j \in registry, j \in jobs, nextFire[j])]
    /\ UNCHANGED <<trigs, started, mainPc, cancelled>>

\* The Scheduler handles a ConfigUpdate message.
HandleConfigUpdate(jobs) ==
    /\ mainPc = "running"
    /\ reloads < MaxReloads
    /\ reloads' = reloads + 1
    /\ ApplyConfigUpdate(jobs)
    /\ UNCHANGED <<pathVars, resVars, execVars, syncVars, driverVars, bootVars>>

\* A run of a removed job ends; no run state is left to update.
OrphanFinish(j) ==
    /\ mainPc = "running"
    /\ orphans[j] > 0
    /\ orphans' = [orphans EXCEPT ![j] = @ - 1]
    /\ UNCHANGED <<trigs, started, running, units, pending, deferred, mainPc, cancelled,
                   registry, nextFire, reloads, pathVars, resVars, execVars, syncVars,
                   driverVars, bootVars>>

\* A trigger, in a run of the Scheduler with MaxTriggers triggers in all.
ReloadTrigger(j) ==
    /\ trigs["s"] + trigs["q"] + trigs["p"] < MaxTriggers
    /\ Trigger(j)

ReloadNext ==
    \/ \E j \in SchedJobs : ReloadTrigger(j)
    \/ \E j \in SchedJobs : Finish(j)
    \/ \E j \in SchedJobs : HandleCompletion(j)
    \/ \E jobs \in SUBSET SchedJobs : HandleConfigUpdate(jobs)
    \/ \E j \in SchedJobs : OrphanFinish(j)


\* ---------------------------------------------------- Directory Materializer
\* A directory is absent, or holds a set of files <<name, version>>.
Absent == [exists |-> FALSE, files |-> {}]
DirOf(files) == [exists |-> TRUE, files |-> files]

\* The SOT's tree at version v: each version drops the oldest file and adds one.
Tree(v) == {<<f, v>> : f \in v..(v + NumFiles - 1)}
CompleteTrees == {DirOf(Tree(v)) : v \in 1..MaxVer}

SyncJobIds == {<<"a">>, <<"b">>}
\* Job ids with a '.' in them, and one that ends in ".tmp".
DottedJobIds == {<<"a">>, <<"a", Dot, "b">>, <<"a", Dot, "tmp">>}
SotKinds == {"git", "plain"}

JobDir == get_job_dir(RSot, sjob)
TempDir == temp_dir_of(JobDir)

NotRead == [exists |-> FALSE, files |-> {<<0, 0>>}]

\* The call begins (git.rs l.141-153).
StartSync ==
    /\ spc \in {"idle", "ok", "err"}
    /\ calls < MaxSyncs
    /\ calls' = calls + 1
    /\ sbefore' = sfs[JobDir]
    /\ tbefore' = sfs[TempDir]
    /\ failedAt' = "none"
    /\ spc' = "cleanup"
    /\ UNCHANGED <<sjob, sotKind, sotVer, sfs, materialized, robs,
                   pathVars, resVars, execVars, schedVars,
                   driverVars, bootVars>>

\* git.rs l.157: remove_dir_all(temp_dir) of a leftover temporary directory.
cleaned_not(dir) == dir
cleaned(dir) == Absent

\* git.rs l.155-158: a leftover temporary directory is removed.
CleanupTemp ==
    /\ spc = "cleanup"
    /\ IF sfs[TempDir].exists
       THEN \/ /\ sfs' = [sfs EXCEPT ![TempDir] = cleaned(@)]
               /\ spc' = "mkdir"
               /\ failedAt' = failedAt
            \/ /\ spc' = "err"
               /\ failedAt' = "cleanup"
               /\ sfs' = sfs
       ELSE /\ spc' = "mkdir"
            /\ UNCHANGED <<sfs, failedAt>>
    /\ UNCHANGED <<sjob, sotKind, sotVer, sbefore, tbefore, calls, materialized, robs,
                   pathVars, resVars, execVars, schedVars,
                   driverVars, bootVars>>

\* git.rs l.159: create_dir_all(temp_dir).
CreateTemp ==
    /\ spc = "mkdir"
    /\ \/ /\ sfs' = [sfs EXCEPT ![TempDir] = IF @.exists THEN @ ELSE DirOf({})]
          /\ spc' = IF sotKind = "git" THEN "archive" ELSE "build"
          /\ failedAt' = failedAt
       \/ /\ spc' = "err"
          /\ failedAt' = "mkdir"
          /\ sfs' = sfs
    /\ UNCHANGED <<sjob, sotKind, sotVer, sbefore, tbefore, calls, materialized, robs,
                   pathVars, resVars, execVars, schedVars,
                   driverVars, bootVars>>

\* git.rs l.162-173: git archive HEAD. It cannot be started (the ? of l.167:
\* the temporary directory stays), or exits non-zero (l.169-173: the
\* temporary directory is removed).
GitArchive ==
    /\ spc = "archive"
    /\ \/ /\ spc' = "build"
          /\ UNCHANGED <<sfs, failedAt>>
       \/ /\ spc' = "err"
          /\ failedAt' = "archive"
          /\ sfs' = sfs
       \/ /\ spc' = "err"
          /\ failedAt' = "archive"
          /\ sfs' = [sfs EXCEPT ![TempDir] = Absent]
    /\ UNCHANGED <<sjob, sotKind, sotVer, sbefore, tbefore, calls, materialized, robs,
                   pathVars, resVars, execVars, schedVars,
                   driverVars, bootVars>>

BuildStep == IF sotKind = "git" THEN "extract" ELSE "rsync"

\* tar -x (l.176-191) or rsync -a --delete (l.198-205) writes one more file of
\* the SOT's tree into the temporary directory; rsync --delete also deletes
\* a file there that the SOT does not have.
BuildWrite ==
    /\ spc = "build"
    /\ sfs[TempDir].exists
    /\ \/ \E f \in Tree(sotVer) \ sfs[TempDir].files :
            sfs' = [sfs EXCEPT ![TempDir] = DirOf(@.files \cup {f})]
       \/ /\ sotKind = "plain"
          /\ \E g \in sfs[TempDir].files \ Tree(sotVer) :
                sfs' = [sfs EXCEPT ![TempDir] = DirOf(@.files \ {g})]
    /\ UNCHANGED <<sjob, sotKind, sotVer, spc, sbefore, tbefore, failedAt, calls, materialized,
                   robs, pathVars, resVars, execVars, schedVars,
                   driverVars, bootVars>>

\* What the tool has to have done to exit with status 0: tar has written
\* every file of the archive, rsync --delete has made the directory equal
\* to the SOT's tree.
Built(dir) ==
    /\ dir.exists
    /\ IF sotKind = "git" THEN Tree(sotVer) \subseteq dir.files
                          ELSE dir.files = Tree(sotVer)

\* The tool ends: with success once the whole tree is written; with a
\* non-zero exit, and the temporary directory is removed (l.192-195,
\* l.207-211); or it cannot be started, fed or awaited (the ? of l.180,
\* l.188, l.191, l.205), and the temporary directory stays as it is.
BuildEnd ==
    /\ spc = "build"
    /\ \/ /\ Built(sfs[TempDir])
          /\ spc' = "swap"
          /\ UNCHANGED <<sfs, failedAt>>
       \/ /\ spc' = "err"
          /\ failedAt' = BuildStep
          /\ sfs' = [sfs EXCEPT ![TempDir] = Absent]
       \/ /\ spc' = "err"
          /\ failedAt' = BuildStep
          /\ sfs' = sfs
    /\ UNCHANGED <<sjob, sotKind, sotVer, sbefore, tbefore, calls, materialized, robs,
                   pathVars, resVars, execVars, schedVars,
                   driverVars, bootVars>>

\* git.rs l.215-217: remove_dir_all(job_dir) unlinks the entries one by one
\* and then the directory; it may fail on the way.
RemoveOld ==
    /\ spc = "swap"
    /\ IF sfs[JobDir].exists
       THEN \/ /\ \E f \in sfs[JobDir].files :
                     sfs' = [sfs EXCEPT ![JobDir] = DirOf(@.files \ {f})]
               /\ UNCHANGED <<spc, failedAt>>
            \/ /\ sfs[JobDir].files = {}
               /\ sfs' = [sfs EXCEPT ![JobDir] = Absent]
               /\ spc' = "rename"
               /\ failedAt' = failedAt
            \/ /\ spc' = "err"
               /\ failedAt' = "remove"
               /\ sfs' = sfs
       ELSE /\ spc' = "rename"
            /\ UNCHANGED <<sfs, failedAt>>
    /\ UNCHANGED <<sjob, sotKind, sotVer, sbefore, tbefore, calls, materialized, robs,
                   pathVars, resVars, execVars, schedVars,
                   driverVars, bootVars>>

\* git.rs l.218-225: rename(temp_dir, job_dir), and Ok(()); or the rename
\* fails, as it always does when temp_dir does not exist.
RenameTemp ==
    /\ spc = "rename"
    /\ \/ /\ sfs[TempDir].exists
          /\ sfs' = [p \in DOMAIN sfs |->
                        IF p = JobDir THEN sfs[TempDir]
                        ELSE IF p = TempDir THEN Absent ELSE sfs[p]]
          /\ spc' = "ok"
          /\ materialized' = TRUE
          /\ failedAt' = failedAt
       \/ /\ spc' = "err"
          /\ failedAt' = "rename"
          /\ UNCHANGED <<sfs, materialized>>
    /\ UNCHANGED <<sjob, sotKind, sotVer, sbefore, tbefore, calls, robs,
                   pathVars, resVars, execVars, schedVars,
                   driverVars, bootVars>>

\* Source Sync brings a new version of the SOT (between two calls).
SourceChange ==
    /\ spc \in {"idle", "ok", "err"}
    /\ sotVer < MaxVer
    /\ sotVer' = sotVer + 1
    /\ UNCHANGED <<sjob, sotKind, sfs, spc, sbefore, tbefore, failedAt, calls, materialized,
                   robs, pathVars, resVars, execVars, schedVars,
                   driverVars, bootVars>>

\* An in-flight run of the job (started after a successful materialization)
\* reads job_dir.
ReaderReads ==
    /\ materialized
    /\ robs' = sfs[JobDir]
    /\ UNCHANGED <<sjob, sotKind, sotVer, sfs, spc, sbefore, tbefore, failedAt, calls,
                   materialized, pathVars, resVars, execVars, schedVars,
                   driverVars, bootVars>>

SyncNext ==
    \/ StartSync
    \/ CleanupTemp
    \/ CreateTemp
    \/ GitArchive
    \/ BuildWrite
    \/ BuildEnd
    \/ RemoveOld
    \/ RenameTemp
    \/ SourceChange
    \/ ReaderReads

\* ------------------------------------------------ Sync Driver and Source Sync
SourceKinds == {"remote", "local"}

\* The job list of rollcron.yaml in version v of the source.
ConfigJobs(v) == IF v % 2 = 1 THEN {"s", "q"} ELSE {"q", "p"}

\* main.rs l.129-134: load_config reads rollcron.yaml of the mirror.
config_version(tree) == CHOOSE v \in {f[2] : f \in tree} : \A w \in {f[2] : f \in tree} : w <= v

\* main.rs l.92-95 and l.101-102: the messages to the Scheduler.
SyncRequest(job_ids, sot_path) ==
    [kind |-> "SyncRequest", jobs |-> job_ids, sot |-> sot_path]
ConfigUpdate(jobs) == [kind |-> "ConfigUpdate", jobs |-> jobs]

\* git.rs l.6-19: ensure_repo returns the cache directory of the source.
cache_dir == Append(cache_base, RSot)

\* main.rs l.91-106: the two sends of a tick, in the order of the code.
tick_messages_config_first(jobs, sot) == <<ConfigUpdate(jobs), SyncRequest(jobs, sot)>>
tick_messages(jobs, sot) == <<SyncRequest(jobs, sot), ConfigUpdate(jobs)>>

\* How a tick of the Sync Driver can end.
TickErrors ==
    {"sync_failed", "no_change", "reload_failed", "sync_send_failed", "config_send_failed"}

\* main.rs l.73-110: the body of the loop ends in `continue` or at the end of
\* the loop, whatever happened: the task awaits the next tick.
next_pc_after_fatal(outcome) == IF outcome = "sync_send_failed" THEN "ended" ELSE "wait"
next_pc_after(outcome) == "wait"

\* main.rs l.107-109: a reload error is logged, nothing is sent.
after_reload_error_unregisters(log) == Append(log, ConfigUpdate({}))
after_reload_error(log) == log

\* The change indicator of Source Sync: whether new content arrived.
changed(before, after) == before # after

\* The source gets a new version.
UpstreamChange ==
    /\ dpc = "wait"
    /\ upVer < MaxVer
    /\ upVer' = upVer + 1
    /\ UNCHANGED <<dpc, ticks, srcKind, mirror, mirrorAtTick, loaded, sent, sentAtTick, reported,
                   handled, schedUp, outcomes, pathVars, resVars, execVars, schedVars,
                   syncVars, bootVars>>

\* main.rs l.73-75: the ticker fires and ensure_repo is called.
DriverTick ==
    /\ dpc = "wait"
    /\ ticks < MaxTicks
    /\ ticks' = ticks + 1
    /\ dpc' = "sync"
    /\ mirrorAtTick' = mirror
    /\ sentAtTick' = Len(sent)
    /\ loaded' = None
    /\ reported' = "nothing"
    /\ UNCHANGED <<srcKind, upVer, mirror, sent, handled, schedUp, outcomes,
                   pathVars, resVars, execVars, schedVars, syncVars, bootVars>>

\* main.rs l.83-85: `let Some(range) = update_info else { continue; }`.
reloads_on_always(has_update) == TRUE
reloads_on(has_update) == has_update

\* main.rs l.75-87: the result of ensure_repo. An error and an unchanged
\* source end the tick; a change goes on to load_config.
AfterEnsure(ok, tree) ==
    IF ~ok
    THEN /\ outcomes' = Append(outcomes, "sync_failed")
         /\ dpc' = next_pc_after("sync_failed")
         /\ reported' = "error"
    ELSE /\ reported' = IF changed(mirrorAtTick, tree) THEN "change" ELSE "no change"
         /\ IF ~reloads_on(changed(mirrorAtTick, tree))
            THEN /\ outcomes' = Append(outcomes, "no_change")
                 /\ dpc' = next_pc_after("no_change")
            ELSE /\ outcomes' = outcomes
                 /\ dpc' = "reload"

\* git.rs l.51-72: git pull --ff-only in the mirror of a remote source; a
\* failed pull leaves the work tree as it was.
PullRemote ==
    /\ dpc = "sync"
    /\ srcKind = "remote"
    /\ \/ /\ mirror' = Tree(upVer)
          /\ AfterEnsure(TRUE, Tree(upVer))
       \/ /\ mirror' = mirror
          /\ AfterEnsure(FALSE, mirror)
    /\ UNCHANGED <<ticks, srcKind, upVer, mirrorAtTick, loaded, sent, sentAtTick,
                   handled, schedUp, pathVars, resVars, execVars, schedVars, syncVars, bootVars>>

\* git.rs l.78-91: rsync -a --delete writes into the mirror itself: it
\* replaces or adds one file of the source, or deletes one the source lacks.
RsyncWrite ==
    /\ dpc = "sync"
    /\ srcKind = "local"
    /\ \/ \E f \in Tree(upVer) \ mirror :
            mirror' = {g \in mirror : g[1] # f[1]} \cup {f}
       \/ \E g \in mirror :
            /\ \A f \in Tree(upVer) : f[1] # g[1]
            /\ mirror' = mirror \ {g}
    /\ UNCHANGED <<dpc, ticks, srcKind, upVer, mirrorAtTick, loaded, sent, sentAtTick, reported,
                   handled, schedUp, outcomes, pathVars, resVars, execVars, schedVars,
                   syncVars, bootVars>>

\* git.rs l.93-100: rsync ends, with success once the mirror equals the
\* source, or with an error wherever it stands.
RsyncEnd ==
    /\ dpc = "sync"
    /\ srcKind = "local"
    /\ \/ /\ mirror = Tree(upVer)
          /\ AfterEnsure(TRUE, mirror)
       \/ AfterEnsure(FALSE, mirror)
    /\ UNCHANGED <<ticks, srcKind, upVer, mirror, mirrorAtTick, loaded, sent, sentAtTick,
                   handled, schedUp, pathVars, resVars, execVars, schedVars, syncVars, bootVars>>

\* main.rs l.89-109: load_config of the mirror; its error is logged.
LoadConfig ==
    /\ dpc = "reload"
    /\ \/ /\ loaded' = Some(ConfigJobs(config_version(mirror)))
          /\ dpc' = "send_sync"
          /\ UNCHANGED <<sent, outcomes>>
       \/ /\ loaded' = loaded
          /\ sent' = after_reload_error(sent)
          /\ outcomes' = Append(outcomes, "reload_failed")
          /\ dpc' = next_pc_after("reload_failed")
    /\ UNCHANGED <<ticks, srcKind, upVer, mirror, mirrorAtTick, sentAtTick, reported,
                   handled, schedUp, pathVars, resVars, execVars, schedVars, syncVars, bootVars>>

\* main.rs l.91-99: SyncRequest is sent first; when the send fails the tick
\* ends.
SendSyncRequest ==
    /\ dpc = "send_sync"
    /\ IF schedUp
       THEN /\ sent' = Append(sent, tick_messages(loaded.val, cache_dir)[1])
            /\ dpc' = "send_config"
            /\ outcomes' = outcomes
       ELSE /\ sent' = sent
            /\ outcomes' = Append(outcomes, "sync_send_failed")
            /\ dpc' = next_pc_after("sync_send_failed")
    /\ UNCHANGED <<ticks, srcKind, upVer, mirror, mirrorAtTick, loaded, sentAtTick, reported,
                   handled, schedUp, pathVars, resVars, execVars, schedVars, syncVars, bootVars>>

\* main.rs l.101-106: ConfigUpdate is sent; a failed send is logged.
SendConfigUpdate ==
    /\ dpc = "send_config"
    /\ IF schedUp
       THEN /\ sent' = Append(sent, tick_messages(loaded.val, cache_dir)[2])
            /\ outcomes' = Append(outcomes, "updated")
            /\ dpc' = next_pc_after("updated")
       ELSE /\ sent' = sent
            /\ outcomes' = Append(outcomes, "config_send_failed")
            /\ dpc' = next_pc_after("config_send_failed")
    /\ UNCHANGED <<ticks, srcKind, upVer, mirror, mirrorAtTick, loaded, sentAtTick, reported,
                   handled, schedUp, pathVars, resVars, execVars, schedVars, syncVars, bootVars>>

\* The Scheduler's actor stops: from now on a send to its address fails
\* (the Err arms of main.rs l.96 and l.104).
SchedulerStops ==
    /\ schedUp
    /\ schedUp' = FALSE
    /\ UNCHANGED <<dpc, ticks, srcKind, upVer, mirror, mirrorAtTick, loaded, sent,
                   sentAtTick, reported, handled, outcomes, pathVars, resVars, execVars, schedVars,
                   syncVars, bootVars>>

\* The Scheduler takes the next message of its mailbox, in arrival order.
Deliver ==
    /\ schedUp
    /\ handled < Len(sent)
    /\ handled' = handled + 1
    /\ IF sent[handled + 1].kind = "ConfigUpdate"
       THEN /\ ApplyConfigUpdate(sent[handled + 1].jobs)
            /\ reloads' = reloads
       ELSE UNCHANGED schedVars
    /\ UNCHANGED <<dpc, ticks, srcKind, upVer, mirror, mirrorAtTick, loaded, sent,
                   sentAtTick, reported, schedUp, outcomes, pathVars, resVars, execVars, syncVars, bootVars>>

DriverNext ==
    \/ UpstreamChange
    \/ DriverTick
    \/ PullRemote
    \/ RsyncWrite
    \/ RsyncEnd
    \/ LoadConfig
    \/ SendSyncRequest
    \/ SendConfigUpdate
    \/ SchedulerStops
    \/ Deliver

\* ------------------------------------------------------- startup (main.rs)
\* main.rs l.49, l.52, l.57: the ? operator returns the error from main, and
\* the process exits with it.
startup_exit_goes_on(next) == next
startup_exit(next) == "failed"

\* The state of a startup that went through for the jobs of the set S.
Booted(S) == [synced |-> TRUE, loaded |-> TRUE, tried |-> S, dirs |-> S, err |-> "none"]

\* main.rs l.49: the initial ensure_repo.
BootEnsure ==
    /\ mainPc = "sync"
    /\ \/ /\ boot' = [boot EXCEPT !.synced = TRUE]
          /\ mirror' = Tree(upVer)
          /\ mirrorAtTick' = Tree(upVer)
          /\ mainPc' = "config"
       \/ /\ boot' = [boot EXCEPT !.err = "sync"]
          /\ UNCHANGED <<mirror, mirrorAtTick>>
          /\ mainPc' = startup_exit("config")
    /\ UNCHANGED <<trigs, started, running, units, pending, deferred, cancelled, reloadVars,
                   dpc, ticks, srcKind, upVer, loaded, sent, sentAtTick, reported, handled,
                   schedUp, outcomes, pathVars, resVars, execVars, syncVars>>

\* main.rs l.52: the initial load_config.
BootLoadConfig ==
    /\ mainPc = "config"
    /\ \/ /\ boot' = [boot EXCEPT !.loaded = TRUE]
          /\ mainPc' = "dirs"
       \/ /\ boot' = [boot EXCEPT !.err = "config"]
          /\ mainPc' = startup_exit("dirs")
    /\ UNCHANGED <<trigs, started, running, units, pending, deferred, cancelled, reloadVars,
                   driverVars, pathVars, resVars, execVars, syncVars>>

\* main.rs l.55-58: sync_to_job_dir for the next job of the initial list.
BootMaterialize ==
    /\ mainPc = "dirs"
    /\ boot.tried # ConfigJobs(1)
    /\ LET job == CHOOSE j \in ConfigJobs(1) \ boot.tried : TRUE
       IN \/ /\ boot' = [boot EXCEPT !.tried = @ \cup {job}, !.dirs = @ \cup {job}]
             /\ mainPc' = "dirs"
          \/ /\ boot' = [boot EXCEPT !.tried = @ \cup {job}, !.err = "dirs"]
             /\ mainPc' = startup_exit("dirs")
    /\ UNCHANGED <<trigs, started, running, units, pending, deferred, cancelled, reloadVars,
                   driverVars, pathVars, resVars, execVars, syncVars>>

\* main.rs l.61-69: the Scheduler actor is spawned with the initial jobs, then
\* the auto-sync task.
BootSpawn ==
    /\ mainPc = "dirs"
    /\ boot.tried = ConfigJobs(1)
    /\ mainPc' = "running"
    /\ registry' = ConfigJobs(1)
    /\ nextFire' = [j \in SchedJobs |-> IF j \in ConfigJobs(1) THEN Some(0) ELSE None]
    /\ schedUp' = TRUE
    /\ dpc' = "wait"
    /\ UNCHANGED <<trigs, started, running, units, pending, deferred, cancelled, orphans,
                   reloads, ticks, srcKind, upVer, mirror, mirrorAtTick, loaded, sent,
                   sentAtTick, reported, handled, outcomes, bootVars, pathVars, resVars,
                   execVars, syncVars>>

StartupNext ==
    \/ BootEnsure
    \/ BootLoadConfig
    \/ BootMaterialize
    \/ BootSpawn
    \/ \E j \in SchedJobs : ReloadTrigger(j)
    \/ \E j \in SchedJobs : Finish(j)
    \/ \E j \in SchedJobs : HandleCompletion(j)
    \/ DriverTick

\* ---------------------------------------------------------- specifications
\* Each specification starts one component from its initial states and holds
\* the others at rest.
InitPaths ==
    /\ sotName \in SotNames
    /\ idA \in JobIds
    /\ idB \in JobIds \ {idA}
    /\ pathsOf = None
    /\ rfs = FsOf(TRUE, EtcDir, FALSE)
    /\ rwd = None
    /\ rres = None
    /\ ejob = [retry |-> None, jitter |-> None]
    /\ epc = "jitter"
    /\ attempt = 0
    /\ eresult = NoResult
    /\ eprocs = NoProcs
    /\ elog = <<>>
    /\ etrace = <<>>
    /\ trigs = [j \in SchedJobs |-> 0]
    /\ started = [j \in SchedJobs |-> 0]
    /\ running = [j \in SchedJobs |-> 0]
    /\ units = [j \in SchedJobs |-> 0]
    /\ pending = [j \in SchedJobs |-> 0]
    /\ deferred = [j \in SchedJobs |-> 0]
    /\ cancelled = [j \in SchedJobs |-> 0]
    /\ mainPc = "running"
    /\ registry = SchedJobs
    /\ nextFire = [j \in SchedJobs |-> Some(0)]
    /\ orphans = [j \in SchedJobs |-> 0]
    /\ reloads = 0
    /\ sjob = <<"a">>
    /\ sotKind = "git"
    /\ sotVer = 1
    /\ sfs = [p \in TouchedPaths(RSot, <<"a">>) |-> Absent]
    /\ spc = "idle"
    /\ sbefore = Absent
    /\ tbefore = Absent
    /\ failedAt = "none"
    /\ calls = 0
    /\ materialized = FALSE
    /\ robs = NotRead
    /\ dpc = "wait"
    /\ ticks = 0
    /\ srcKind = "remote"
    /\ upVer = 1
    /\ mirror = Tree(1)
    /\ mirrorAtTick = Tree(1)
    /\ loaded = None
    /\ sent = <<>>
    /\ sentAtTick = 0
    /\ handled = 0
    /\ schedUp = TRUE
    /\ outcomes = <<>>
    /\ reported = "nothing"
    /\ boot = Booted(registry)

InitResolve ==
    /\ rfs \in {FsOf(e, t, l) : e \in BOOLEAN, t \in {EtcDir, SubDir}, l \in BOOLEAN}
    /\ rwd \in WorkingDirs
    /\ rres = None
    /\ sotName = <<"r">>
    /\ idA = <<"a">>
    /\ idB = <<"b">>
    /\ pathsOf = None
    /\ ejob = [retry |-> None, jitter |-> None]
    /\ epc = "jitter"
    /\ attempt = 0
    /\ eresult = NoResult
    /\ eprocs = NoProcs
    /\ elog = <<>>
    /\ etrace = <<>>
    /\ trigs = [j \in SchedJobs |-> 0]
    /\ started = [j \in SchedJobs |-> 0]
    /\ running = [j \in SchedJobs |-> 0]
    /\ units = [j \in SchedJobs |-> 0]
    /\ pending = [j \in SchedJobs |-> 0]
    /\ deferred = [j \in SchedJobs |-> 0]
    /\ cancelled = [j \in SchedJobs |-> 0]
    /\ mainPc = "running"
    /\ registry = SchedJobs
    /\ nextFire = [j \in SchedJobs |-> Some(0)]
    /\ orphans = [j \in SchedJobs |-> 0]
    /\ reloads = 0
    /\ sjob = <<"a">>
    /\ sotKind = "git"
    /\ sotVer = 1
    /\ sfs = [p \in TouchedPaths(RSot, <<"a">>) |-> Absent]
    /\ spc = "idle"
    /\ sbefore = Absent
    /\ tbefore = Absent
    /\ failedAt = "none"
    /\ calls = 0
    /\ materialized = FALSE
    /\ robs = NotRead
    /\ dpc = "wait"
    /\ ticks = 0
    /\ srcKind = "remote"
    /\ upVer = 1
    /\ mirror = Tree(1)
    /\ mirrorAtTick = Tree(1)
    /\ loaded = None
    /\ sent = <<>>
    /\ sentAtTick = 0
    /\ handled = 0
    /\ schedUp = TRUE
    /\ outcomes = <<>>
    /\ reported = "nothing"
    /\ boot = Booted(registry)

InitExec ==
    /\ ejob \in Jobs
    /\ epc = "jitter"
    /\ attempt = 0
    /\ eresult = NoResult
    /\ eprocs = NoProcs
    /\ elog = <<>>
    /\ etrace = <<>>
    /\ sotName = <<"r">>
    /\ idA = <<"a">>
    /\ idB = <<"b">>
    /\ pathsOf = None
    /\ rfs = FsOf(TRUE, EtcDir, FALSE)
    /\ rwd = None
    /\ rres = None
    /\ trigs = [j \in SchedJobs |-> 0]
    /\ started = [j \in SchedJobs |-> 0]
    /\ running = [j \in SchedJobs |-> 0]
    /\ units = [j \in SchedJobs |-> 0]
    /\ pending = [j \in SchedJobs |-> 0]
    /\ deferred = [j \in SchedJobs |-> 0]
    /\ cancelled = [j \in SchedJobs |-> 0]
    /\ mainPc = "running"
    /\ registry = SchedJobs
    /\ nextFire = [j \in SchedJobs |-> Some(0)]
    /\ orphans = [j \in SchedJobs |-> 0]
    /\ reloads = 0
    /\ sjob = <<"a">>
    /\ sotKind = "git"
    /\ sotVer = 1
    /\ sfs = [p \in TouchedPaths(RSot, <<"a">>) |-> Absent]
    /\ spc = "idle"
    /\ sbefore = Absent
    /\ tbefore = Absent
    /\ failedAt = "none"
    /\ calls = 0
    /\ materialized = FALSE
    /\ robs = NotRead
    /\ dpc = "wait"
    /\ ticks = 0
    /\ srcKind = "remote"
    /\ upVer = 1
    /\ mirror = Tree(1)
    /\ mirrorAtTick = Tree(1)
    /\ loaded = None
    /\ sent = <<>>
    /\ sentAtTick = 0
    /\ handled = 0
    /\ schedUp = TRUE
    /\ outcomes = <<>>
    /\ reported = "nothing"
    /\ boot = Booted(registry)

InitSched ==
    /\ trigs = [j \in SchedJobs |-> 0]
    /\ started = [j \in SchedJobs |-> 0]
    /\ running = [j \in SchedJobs |-> 0]
    /\ units = [j \in SchedJobs |-> 0]
    /\ pending = [j \in SchedJobs |-> 0]
    /\ deferred = [j \in SchedJobs |-> 0]
    /\ cancelled = [j \in SchedJobs |-> 0]
    /\ mainPc = "running"
    /\ registry = SchedJobs
    /\ nextFire = [j \in SchedJobs |-> Some(0)]
    /\ orphans = [j \in SchedJobs |-> 0]
    /\ reloads = 0
    /\ sotName = <<"r">>
    /\ idA = <<"a">>
    /\ idB = <<"b">>
    /\ pathsOf = None
    /\ rfs = FsOf(TRUE, EtcDir, FALSE)
    /\ rwd = None
    /\ rres = None
    /\ ejob = [retry |-> None, jitter |-> None]
    /\ epc = "jitter"
    /\ attempt = 0
    /\ eresult = NoResult
    /\ eprocs = NoProcs
    /\ elog = <<>>
    /\ etrace = <<>>
    /\ sjob = <<"a">>
    /\ sotKind = "git"
    /\ sotVer = 1
    /\ sfs = [p \in TouchedPaths(RSot, <<"a">>) |-> Absent]
    /\ spc = "idle"
    /\ sbefore = Absent
    /\ tbefore = Absent
    /\ failedAt = "none"
    /\ calls = 0
    /\ materialized = FALSE
    /\ robs = NotRead
    /\ dpc = "wait"
    /\ ticks = 0
    /\ srcKind = "remote"
    /\ upVer = 1
    /\ mirror = Tree(1)
    /\ mirrorAtTick = Tree(1)
    /\ loaded = None
    /\ sent = <<>>
    /\ sentAtTick = 0
    /\ handled = 0
    /\ schedUp = TRUE
    /\ outcomes = <<>>
    /\ reported = "nothing"
    /\ boot = Booted(registry)

InitReload ==
    /\ trigs = [j \in SchedJobs |-> 0]
    /\ started = [j \in SchedJobs |-> 0]
    /\ running = [j \in SchedJobs |-> 0]
    /\ units = [j \in SchedJobs |-> 0]
    /\ pending = [j \in SchedJobs |-> 0]
    /\ deferred = [j \in SchedJobs |-> 0]
    /\ cancelled = [j \in SchedJobs |-> 0]
    /\ mainPc = "running"
    /\ registry = {"s", "q"}
    /\ nextFire = [j \in SchedJobs |-> IF j \in {"s", "q"} THEN Some(0) ELSE None]
    /\ orphans = [j \in SchedJobs |-> 0]
    /\ reloads = 0
    /\ sotName = <<"r">>
    /\ idA = <<"a">>
    /\ idB = <<"b">>
    /\ pathsOf = None
    /\ rfs = FsOf(TRUE, EtcDir, FALSE)
    /\ rwd = None
    /\ rres = None
    /\ ejob = [retry |-> None, jitter |-> None]
    /\ epc = "jitter"
    /\ attempt = 0
    /\ eresult = NoResult
    /\ eprocs = NoProcs
    /\ elog = <<>>
    /\ etrace = <<>>
    /\ sjob = <<"a">>
    /\ sotKind = "git"
    /\ sotVer = 1
    /\ sfs = [p \in TouchedPaths(RSot, <<"a">>) |-> Absent]
    /\ spc = "idle"
    /\ sbefore = Absent
    /\ tbefore = Absent
    /\ failedAt = "none"
    /\ calls = 0
    /\ materialized = FALSE
    /\ robs = NotRead
    /\ dpc = "wait"
    /\ ticks = 0
    /\ srcKind = "remote"
    /\ upVer = 1
    /\ mirror = Tree(1)
    /\ mirrorAtTick = Tree(1)
    /\ loaded = None
    /\ sent = <<>>
    /\ sentAtTick = 0
    /\ handled = 0
    /\ schedUp = TRUE
    /\ outcomes = <<>>
    /\ reported = "nothing"
    /\ boot = Booted(registry)

InitDriver ==
    /\ trigs = [j \in SchedJobs |-> 0]
    /\ started = [j \in SchedJobs |-> 0]
    /\ running = [j \in SchedJobs |-> 0]
    /\ units = [j \in SchedJobs |-> 0]
    /\ pending = [j \in SchedJobs |-> 0]
    /\ deferred = [j \in SchedJobs |-> 0]
    /\ cancelled = [j \in SchedJobs |-> 0]
    /\ mainPc = "running"
    /\ registry = {"s", "q"}
    /\ nextFire = [j \in SchedJobs |-> IF j \in {"s", "q"} THEN Some(0) ELSE None]
    /\ orphans = [j \in SchedJobs |-> 0]
    /\ reloads = 0
    /\ sotName = <<"r">>
    /\ idA = <<"a">>
    /\ idB = <<"b">>
    /\ pathsOf = None
    /\ rfs = FsOf(TRUE, EtcDir, FALSE)
    /\ rwd = None
    /\ rres = None
    /\ ejob = [retry |-> None, jitter |-> None]
    /\ epc = "jitter"
    /\ attempt = 0
    /\ eresult = NoResult
    /\ eprocs = NoProcs
    /\ elog = <<>>
    /\ etrace = <<>>
    /\ sjob = <<"a">>
    /\ sotKind = "git"
    /\ sotVer = 1
    /\ sfs = [p \in TouchedPaths(RSot, <<"a">>) |-> Absent]
    /\ spc = "idle"
    /\ sbefore = Absent
    /\ tbefore = Absent
    /\ failedAt = "none"
    /\ calls = 0
    /\ materialized = FALSE
    /\ robs = NotRead
    /\ dpc = "wait"
    /\ ticks = 0
    /\ srcKind \in SourceKinds
    /\ upVer = 1
    /\ mirror = Tree(1)
    /\ mirrorAtTick = Tree(1)
    /\ loaded = None
    /\ sent = <<>>
    /\ sentAtTick = 0
    /\ handled = 0
    /\ schedUp = TRUE
    /\ outcomes = <<>>
    /\ reported = "nothing"
    /\ boot = Booted(registry)

InitStartup ==
    /\ trigs = [j \in SchedJobs |-> 0]
    /\ started = [j \in SchedJobs |-> 0]
    /\ running = [j \in SchedJobs |-> 0]
    /\ units = [j \in SchedJobs |-> 0]
    /\ pending = [j \in SchedJobs |-> 0]
    /\ deferred = [j \in SchedJobs |-> 0]
    /\ cancelled = [j \in SchedJobs |-> 0]
    /\ mainPc = "sync"
    /\ registry = {}
    /\ nextFire = [j \in SchedJobs |-> None]
    /\ orphans = [j \in SchedJobs |-> 0]
    /\ reloads = 0
    /\ sotName = <<"r">>
    /\ idA = <<"a">>
    /\ idB = <<"b">>
    /\ pathsOf = None
    /\ rfs = FsOf(TRUE, EtcDir, FALSE)
    /\ rwd = None
    /\ rres = None
    /\ ejob = [retry |-> None, jitter |-> None]
    /\ epc = "jitter"
    /\ attempt = 0
    /\ eresult = NoResult
    /\ eprocs = NoProcs
    /\ elog = <<>>
    /\ etrace = <<>>
    /\ sjob = <<"a">>
    /\ sotKind = "git"
    /\ sotVer = 1
    /\ sfs = [p \in TouchedPaths(RSot, <<"a">>) |-> Absent]
    /\ spc = "idle"
    /\ sbefore = Absent
    /\ tbefore = Absent
    /\ failedAt = "none"
    /\ calls = 0
    /\ materialized = FALSE
    /\ robs = NotRead
    /\ dpc = "off"
    /\ ticks = 0
    /\ srcKind \in SourceKinds
    /\ upVer = 1
    /\ mirror = {}
    /\ mirrorAtTick = {}
    /\ loaded = None
    /\ sent = <<>>
    /\ sentAtTick = 0
    /\ handled = 0
    /\ schedUp = FALSE
    /\ outcomes = <<>>
    /\ reported = "nothing"
    /\ boot = [synced |-> FALSE, loaded |-> FALSE, tried |-> {}, dirs |-> {}, err |-> "none"]

InitSync ==
    /\ trigs = [j \in SchedJobs |-> 0]
    /\ started = [j \in SchedJobs |-> 0]
    /\ running = [j \in SchedJobs |-> 0]
    /\ units = [j \in SchedJobs |-> 0]
    /\ pending = [j \in SchedJobs |-> 0]
    /\ deferred = [j \in SchedJobs |-> 0]
    /\ cancelled = [j \in SchedJobs |-> 0]
    /\ mainPc = "running"
    /\ registry = SchedJobs
    /\ nextFire = [j \in SchedJobs |-> Some(0)]
    /\ orphans = [j \in SchedJobs |-> 0]
    /\ reloads = 0
    /\ sotName = <<"r">>
    /\ idA = <<"a">>
    /\ idB = <<"b">>
    /\ pathsOf = None
    /\ rfs = FsOf(TRUE, EtcDir, FALSE)
    /\ rwd = None
    /\ rres = None
    /\ ejob = [retry |-> None, jitter |-> None]
    /\ epc = "jitter"
    /\ attempt = 0
    /\ eresult = NoResult
    /\ eprocs = NoProcs
    /\ elog = <<>>
    /\ etrace = <<>>
    /\ sjob \in SyncJobIds
    /\ sotKind \in SotKinds
    /\ sotVer = 1
    /\ sfs = [p \in TouchedPaths(RSot, sjob) |-> Absent]
    /\ spc = "idle"
    /\ sbefore = Absent
    /\ tbefore = Absent
    /\ failedAt = "none"
    /\ calls = 0
    /\ materialized = FALSE
    /\ robs = NotRead
    /\ dpc = "wait"
    /\ ticks = 0
    /\ srcKind = "remote"
    /\ upVer = 1
    /\ mirror = Tree(1)
    /\ mirrorAtTick = Tree(1)
    /\ loaded = None
    /\ sent = <<>>
    /\ sentAtTick = 0
    /\ handled = 0
    /\ schedUp = TRUE
    /\ outcomes = <<>>
    /\ reported = "nothing"
    /\ boot = Booted(registry)

InitSyncDotted ==
    /\ trigs = [j \in SchedJobs |-> 0]
    /\ started = [j \in SchedJobs |-> 0]
    /\ running = [j \in SchedJobs |-> 0]
    /\ units = [j \in SchedJobs |-> 0]
    /\ pending = [j \in SchedJobs |-> 0]
    /\ deferred = [j \in SchedJobs |-> 0]
    /\ cancelled = [j \in SchedJobs |-> 0]
    /\ mainPc = "running"
    /\ registry = SchedJobs
    /\ nextFire = [j \in SchedJobs |-> Some(0)]
    /\ orphans = [j \in SchedJobs |-> 0]
    /\ reloads = 0
    /\ sotName = <<"r">>
    /\ idA = <<"a">>
    /\ idB = <<"b">>
    /\ pathsOf = None
    /\ rfs = FsOf(TRUE, EtcDir, FALSE)
    /\ rwd = None
    /\ rres = None
    /\ ejob = [retry |-> None, jitter |-> None]
    /\ epc = "jitter"
    /\ attempt = 0
    /\ eresult = NoResult
    /\ eprocs = NoProcs
    /\ elog = <<>>
    /\ etrace = <<>>
    /\ sjob \in DottedJobIds
    /\ sotKind \in SotKinds
    /\ sotVer = 1
    /\ sfs = [p \in TouchedPaths(RSot, sjob) |-> Absent]
    /\ spc = "idle"
    /\ sbefore = Absent
    /\ tbefore = Absent
    /\ failedAt = "none"
    /\ calls = 0
    /\ materialized = FALSE
    /\ robs = NotRead
    /\ dpc = "wait"
    /\ ticks = 0
    /\ srcKind = "remote"
    /\ upVer = 1
    /\ mirror = Tree(1)
    /\ mirrorAtTick = Tree(1)
    /\ loaded = None
    /\ sent = <<>>
    /\ sentAtTick = 0
    /\ handled = 0
    /\ schedUp = TRUE
    /\ outcomes = <<>>
    /\ reported = "nothing"
    /\ boot = Booted(registry)

SpecPaths == InitPaths /\ [][PathsNext]_vars
SpecResolve == InitResolve /\ [][ResNext]_vars
SpecExec == InitExec /\ [][ExecNext]_vars

\* execute_job is one tokio task: each sleep ends (l.41, l.52), the read of
\* .env and the spawn return, and timeout(job.timeout, ..) of l.98 returns
\* when the command ends or at the job's timeout, whichever comes first.
ExecFairness ==
    /\ WF_vars(ApplyJitter)
    /\ WF_vars(LoopHead)
    /\ WF_vars(LoadEnv)
    /\ WF_vars(Spawn)
    /\ WF_vars(WaitChild)
    /\ WF_vars(HandleResult)
SpecExecLive == InitExec /\ [][ExecNext]_vars /\ ExecFairness
SpecSched == InitSched /\ [][SchedNext]_vars
SpecReload == InitReload /\ [][ReloadNext]_vars
SpecDriver == InitDriver /\ [][DriverNext]_vars
SpecStartup == InitStartup /\ [][StartupNext]_vars
SpecSync == InitSync /\ [][SyncNext]_vars
SpecSyncDotted == InitSyncDotted /\ [][SyncNext]_vars

\* ------------------------------------------------------------------ claims
IsSuccess(res) == res.kind = "Completed" /\ res.code = 0
IsAttempt(e) == e.ev = "attempt"
IsBackoff(e) == e.ev = "backoff"
Attempts(log) == SelectSeq(log, IsAttempt)
Backoffs(log) == SelectSeq(log, IsBackoff)
NotJitter(e) == e.ev # "jitter"
AllFailed(log) == \A i \in 1..Len(log) : IsAttempt(log[i]) => ~IsSuccess(log[i].res)

\* C1: while sync_to_job_dir runs beside an in-flight run of the job, whatever
\* the run reads of job_dir is the complete old tree or the complete new tree,
\* never an absent, partly deleted or partly written directory.
C1_ReaderSeesCompleteTree == robs = NotRead \/ robs \in CompleteTrees

\* C2: when sync_to_job_dir returns an error from the archive, extract, rsync
\* or rename step, job_dir is what it was before the call: the same contents
\* when it existed, absent when it did not.
C2_ErrorLeavesJobDir ==
    (spc = "err" /\ failedAt \in {"archive", "extract", "rsync", "rename"})
        => sfs[JobDir] = sbefore

\* C3: a job with policy skip never has two runs in flight and never a
\* pending trigger; a trigger that arrives while a run is in flight starts no
\* run, and a run of the job only ever starts when none is in flight.
C3_SkipNeverOverlaps ==
    [][\A j \in SchedJobs : PolicyOf(j) = "skip" =>
          /\ units'[j] <= 1
          /\ pending'[j] = 0
          /\ (started'[j] # started[j] => units[j] = 0 /\ running[j] = 0)
          /\ (trigs'[j] # trigs[j] /\ running[j] > 0 =>
                started'[j] = started[j] /\ units'[j] = units[j])]_vars

C3_Witness ==
    /\ trigs["s"] >= 2
    /\ started["s"] = 1
    /\ units["s"] = 1

\* C4: a job with policy queue has at most one trigger pending and at most
\* one run in flight; a run starts only when none is in flight; and when a
\* completion is handled, exactly one follow-up run starts if one or more
\* triggers arrived during the run, and none otherwise.
C4_QueueCoalesces ==
    [][\A j \in SchedJobs : PolicyOf(j) = "queue" =>
          /\ pending'[j] <= 1
          /\ units'[j] <= 1
          /\ (started'[j] # started[j] =>
                units[j] = 0 /\ started'[j] = started[j] + 1)
          /\ (HandleCompletion(j) =>
                started'[j] - started[j] = IF deferred[j] >= 1 THEN 1 ELSE 0)]_vars

C4_Witness ==
    /\ trigs["q"] = 3
    /\ started["q"] = 2
    /\ pending["q"] = 0
    /\ units["q"] = 1

\* C5: once the process has exited after an interrupt, no run that was in
\* flight has been cancelled by the shutdown.
C5_ShutdownIsGraceful ==
    mainPc = "exited" => \A j \in SchedJobs : cancelled[j] = 0

\* C6: when execute_job has returned and every attempt failed, it made
\* retry.max + 1 attempts (1 without retry) and slept retry.max backoffs
\* (none without retry), one between each two consecutive attempts.
C6_ExhaustsRetries ==
    (epc = "returned" /\ AllFailed(elog)) =>
        LET n == IF ejob.retry.some THEN ejob.retry.val ELSE 0
            steps == SelectSeq(elog, NotJitter)
        IN /\ Len(Attempts(elog)) = n + 1
           /\ Len(Backoffs(elog)) = n
           /\ Len(steps) = 2 * n + 1
           /\ \A i \in 1..Len(steps) :
                 IF i % 2 = 1 THEN IsAttempt(steps[i]) ELSE IsBackoff(steps[i])

C6_Witness ==
    /\ epc = "returned"
    /\ ejob.retry = Some(2)
    /\ AllFailed(elog)
    /\ Len(Attempts(elog)) = 3
    /\ Len(Backoffs(elog)) = 2

\* C7: a successful attempt is the last thing execute_job does: it has
\* returned, and no attempt and no backoff sleep follows; after a success on
\* the first attempt no backoff sleep has happened at all.
C7_SuccessReturnsAtOnce ==
    /\ \A i \in 1..Len(elog) :
          (IsAttempt(elog[i]) /\ IsSuccess(elog[i].res)) =>
              (i = Len(elog) /\ epc = "returned")
    /\ (Attempts(elog) # <<>> /\ IsSuccess(Attempts(elog)[1].res)) =>
          Backoffs(elog) = <<>>

C7_Witness ==
    /\ epc = "returned"
    /\ ejob.retry.some
    /\ ejob.retry.val >= 1
    /\ Len(Attempts(elog)) = 1
    /\ IsSuccess(Attempts(elog)[1].res)
    /\ Backoffs(elog) = <<>>

\* C8: when an attempt ended as Timeout, the spawned shell and every child
\* process of it have been terminated.
C8_TimeoutKillsProcessTree ==
    (epc = "handle" /\ eresult = Timeout) =>
        (eprocs.shell = "killed" /\ eprocs.kids = 0)

\* C9: resolve_work_dir returns the canonical target when it exists inside
\* the canonical job directory and the job's root otherwise; what it returns
\* is the job's root, or a directory that really lies in the job directory
\* (at or below the place where the job directory really is, no symbolic
\* link on the way).
C9_ResolveStaysInside ==
    rres.some =>
        LET target == IF rwd.some
                      THEN canonicalize(rfs, PathJoin(RJobDir, rwd.val))
                      ELSE Err
            contained == /\ rwd.some
                         /\ target.ok
                         /\ rfs.realJobDir \in rfs.dirs
                         /\ IsPrefix(rfs.realJobDir, target.path)
        IN /\ rres.val = IF contained THEN target.path ELSE RJobDir
           /\ \/ rres.val = RJobDir
              \/ /\ IsPrefix(rfs.realJobDir, rres.val)
                 /\ rres.val \in rfs.dirs
                 /\ \A k \in 1..Len(rres.val) :
                       SubSeq(rres.val, 1, k) \notin DOMAIN rfs.links

C9_Witness ==
    /\ rres.some
    /\ rwd = Some([abs |-> FALSE, comps |-> <<DotDot, DotDot, <<"etc">> >>])
    /\ rfs.realJobDir \in rfs.dirs
    /\ canonicalize(rfs, PathJoin(RJobDir, rwd.val)) = Ok(EtcDir)
    /\ rres.val = RJobDir

\* C10: the directories touched by the materializations of two distinct job
\* ids (each job's directory and its temporary directory) are disjoint.
C10_JobPathsDisjoint ==
    pathsOf.some => pathsOf.val.a \cap pathsOf.val.b = {}

TickEnded == Len(outcomes) = ticks
LastOutcome == IF outcomes = <<>> THEN "none" ELSE outcomes[Len(outcomes)]

\* C11: when load_config fails on a tick that detected a change, the tick
\* sends the Scheduler neither a SyncRequest nor a ConfigUpdate, and the
\* failing step leaves the job registry and the run state as they were.
C11_ReloadFailureKeepsConfig ==
    /\ []((TickEnded /\ LastOutcome = "reload_failed") => Len(sent) = sentAtTick)
    /\ [][(dpc = "reload" /\ dpc' = "wait") =>
             sent' = sent /\ schedVars' = schedVars]_vars

C11_Witness ==
    /\ TickEnded
    /\ LastOutcome = "reload_failed"
    /\ changed(mirrorAtTick, mirror)
    /\ handled = Len(sent)
    /\ registry = ConfigJobs(1)

\* C12: when Source Sync fails on a tick, the tick ends there: no
\* configuration is loaded, no message is sent, and the SOT mirror holds the
\* complete tree it held before the tick.
C12_SyncFailureKeepsMirror ==
    (TickEnded /\ LastOutcome = "sync_failed") =>
        /\ loaded = None
        /\ Len(sent) = sentAtTick
        /\ mirror = mirrorAtTick

\* C13: a ConfigUpdate drops the run state of every job it removes (the runs
\* in flight are left to finish, and no run of the job starts any more),
\* gives every job it adds a fresh run state (no run in flight, nothing
\* pending, a next-fire time), and leaves the run state of the jobs in both
\* lists as it was.
C13_ReloadRunState ==
    /\ [][reloads' # reloads =>
            \A j \in SchedJobs :
               /\ (j \in registry /\ j \notin registry') =>
                     /\ running'[j] = 0 /\ pending'[j] = 0 /\ units'[j] = 0
                     /\ ~nextFire'[j].some
                     /\ orphans'[j] = orphans[j] + units[j]
               /\ (j \notin registry /\ j \in registry') =>
                     /\ running'[j] = 0 /\ pending'[j] = 0 /\ units'[j] = 0
                     /\ nextFire'[j] = Some(0)
                     /\ orphans'[j] = orphans[j]
               /\ (j \in registry /\ j \in registry') =>
                     /\ running'[j] = running[j] /\ pending'[j] = pending[j]
                     /\ units'[j] = units[j] /\ deferred'[j] = deferred[j]
                     /\ nextFire'[j] = nextFire[j] /\ orphans'[j] = orphans[j]]_vars
    /\ [][\A j \in SchedJobs : started'[j] # started[j] => j \in registry]_vars
    /\ [](\A j \in SchedJobs \ registry :
             running[j] = 0 /\ pending[j] = 0 /\ units[j] = 0 /\ ~nextFire[j].some)

C13_Witness ==
    /\ reloads = 1
    /\ registry = {"q", "p"}
    /\ orphans["s"] = 1
    /\ nextFire["p"] = Some(0)
    /\ running["q"] = 1
    /\ pending["q"] = 1
    /\ nextFire["q"] = Some(2)

AttemptBudget == (IF ejob.retry.some THEN ejob.retry.val ELSE 0) + 1
AttemptResults == [i \in 1..Len(Attempts(elog)) |-> Attempts(elog)[i].res]

\* C14: execute_job always returns, and returns nothing but (): whatever the
\* outcomes of its attempts, it makes at least one and at most retry.max + 1
\* attempts (one without retry), each ended by the job's timeout at the
\* latest, and it is never anywhere but in a step of its loop or returned.
C14_ExecuteJobTerminates ==
    /\ <>(epc = "returned")
    /\ [](Len(Attempts(elog)) <= AttemptBudget)
    /\ [](epc = "returned" => Len(Attempts(elog)) >= 1)
    /\ [](epc \in {"jitter", "loop", "env", "spawn", "wait", "handle", "returned"})
    /\ [](epc = "returned" => ~ENABLED (ApplyJitter \/ LoopHead \/ LoadEnv \/ Spawn
                                          \/ WaitChild \/ HandleResult))

C14_Witness ==
    /\ epc = "returned"
    /\ AttemptResults = <<ExecError("env"), ExecError("spawn"), Timeout>>

\* C15: an attempt succeeds exactly when its command completed with exit
\* code 0. Every attempt before the last one failed (another exit code, an
\* ExecError or a Timeout), and execute_job returns only after a completion
\* with exit code 0 or after the last attempt of the budget: a failure with
\* budget left is followed by another attempt.
C15_OnlyExitZeroSucceeds ==
    LET atts == Attempts(elog)
    IN /\ \A i \in 1..Len(atts) :
             i < Len(atts) => atts[i].res # Completed(0)
       /\ \A i \in 1..Len(atts) :
             (atts[i].res = Completed(0)) => (i = Len(atts) /\ epc = "returned")
       /\ (epc = "returned" /\ Len(atts) >= 1) =>
             \/ atts[Len(atts)].res = Completed(0)
             \/ Len(atts) = AttemptBudget

C15_Witness ==
    /\ epc = "returned"
    /\ AttemptResults = <<Completed(1), Timeout, Completed(0)>>

\* C16: the Sync Driver never ends in steady state. A tick that ends, by a
\* failed sync, an unchanged source, a failed reload, a failed send or an
\* update, leaves the driver waiting for the next tick, and the next tick can
\* fire and runs Source Sync again.
C16_DriverSurvivesErrors ==
    /\ dpc \in {"wait", "sync", "reload", "send_sync", "send_config"}
    /\ (TickEnded <=> dpc = "wait")
    /\ \A i \in 1..Len(outcomes) : outcomes[i] \in TickErrors \cup {"updated"}
    /\ (dpc = "wait" /\ ticks < MaxTicks) => ENABLED DriverTick

C16_Witness ==
    /\ dpc = "sync"
    /\ ticks = 3
    /\ outcomes = <<"sync_failed", "sync_send_failed">>

\* C20: attempts and backoff sleeps alternate, starting with attempt 0: the
\* sleep before attempt k > 0 is calculate_backoff(retry, k - 1), no sleep
\* comes before attempt 0, and a returned call of m attempts has slept
\* exactly m - 1 times, with the indices 0..m-2 in order.
C20_BackoffBetweenAttempts ==
    LET steps == SelectSeq(elog, NotJitter)
    IN /\ \A i \in 1..Len(steps) :
             IF i % 2 = 1
             THEN IsAttempt(steps[i]) /\ steps[i].n = (i - 1) \div 2
             ELSE IsBackoff(steps[i]) /\ steps[i].n = (i \div 2) - 1
       /\ epc = "returned" =>
             /\ Len(Backoffs(elog)) = Len(Attempts(elog)) - 1
             /\ \A k \in 1..Len(Backoffs(elog)) : Backoffs(elog)[k].n = k - 1

C20_Witness ==
    /\ epc = "returned"
    /\ ejob.jitter = Some(1)
    /\ Len(elog) = 6
    /\ elog[1].ev = "jitter"
    /\ AttemptResults = <<Timeout, Completed(1), Completed(0)>>

Building == spc \in {"cleanup", "mkdir", "archive", "build"}

\* C17: from the start of a sync_to_job_dir call until the export and
\* extraction (or the rsync) has succeeded, job_dir is what it was before
\* the call: the temporary directory is another path, and nothing of job_dir
\* is removed or written. This is so for every job id, also one with a '.'
\* in it and one that ends in ".tmp".
C17_BuildsBesideJobDir == Building => sfs[JobDir] = sbefore

\* C18: when sync_to_job_dir returns an error of the export or extraction
\* (git archive, tar, rsync: not started, not fed, or exited non-zero), the
\* temporary directory has been removed.
C18_FailedExportRemovesTemp ==
    (spc = "err" /\ failedAt \in {"archive", "extract", "rsync"}) => ~sfs[TempDir].exists

\* C19: when sync_to_job_dir returns Ok, job_dir holds exactly the tree of
\* the SOT, no file of the previous job_dir and no file that an earlier
\* failed call left in the temporary directory among them, and the
\* temporary directory does not exist.
C19_SuccessReplacesWholesale ==
    [][(spc # "ok" /\ spc' = "ok") =>
          /\ sfs'[JobDir] = DirOf(Tree(sotVer'))
          /\ ~sfs'[TempDir].exists]_vars

C19_Witness ==
    /\ spc = "ok"
    /\ sotVer = 2
    /\ sbefore = DirOf(Tree(1))
    /\ tbefore.exists
    /\ tbefore.files # {}
    /\ tbefore.files \subseteq Tree(1)

IsJitter(e) == e.ev = "jitter"

\* C21: execute_job sleeps the startup jitter at most once, as the first
\* thing it does: before attempt 0, before any backoff and before any
\* command is spawned, never between two attempts. A job without jitter
\* does not sleep it, and a drawn jitter of zero is not slept.
C21_JitterOnceBeforeFirstAttempt ==
    /\ Len(SelectSeq(elog, IsJitter)) <= 1
    /\ \A i \in 1..Len(elog) :
          IsJitter(elog[i]) =>
             /\ i = 1
             /\ ejob.jitter.some
             /\ elog[i].n \in 1..ejob.jitter.val
    /\ epc = "jitter" => (elog = <<>> /\ attempt = 0 /\ eprocs = NoProcs)

C21_Witness ==
    /\ epc = "returned"
    /\ ejob.jitter = Some(1)
    /\ IsJitter(elog[1])
    /\ Len(elog) = 6
    /\ AttemptResults = <<Completed(1), ExecError("spawn"), Timeout>>

SentThisTick == SubSeq(sent, sentAtTick + 1, Len(sent))

\* C22: a tick that detected a change and loaded the configuration sends
\* first a SyncRequest with the ids of all jobs of that configuration and
\* the SOT path, then a ConfigUpdate with the same jobs, and nothing else.
\* The ConfigUpdate is sent only after the SyncRequest was sent: a tick whose
\* SyncRequest send failed has sent nothing, and every ConfigUpdate ever
\* sent follows the SyncRequest of its tick.
C22_SyncRequestThenConfigUpdate ==
    /\ Len(SentThisTick) <= 2
    /\ \A i \in 1..Len(SentThisTick) :
          /\ loaded.some
          /\ loaded.val = ConfigJobs(config_version(mirror))
          /\ i = 1 => SentThisTick[i] = SyncRequest(loaded.val, cache_dir)
          /\ i = 2 => SentThisTick[i] = ConfigUpdate(loaded.val)
    /\ (TickEnded /\ LastOutcome = "updated") => Len(SentThisTick) = 2
    /\ (TickEnded /\ LastOutcome = "sync_send_failed") => SentThisTick = <<>>
    /\ (TickEnded /\ LastOutcome = "config_send_failed") => Len(SentThisTick) = 1
    /\ dpc = "send_config" => Len(SentThisTick) = 1
    /\ \A i \in 1..Len(sent) :
          sent[i].kind = "ConfigUpdate" =>
             i > 1 /\ sent[i - 1] = SyncRequest(sent[i].jobs, cache_dir)

C22_Witness ==
    /\ outcomes = <<"no_change", "updated">>
    /\ dpc = "wait"
    /\ Len(sent) = 2
    /\ sentAtTick = 0
    /\ handled = 2
    /\ registry = ConfigJobs(2)

\* C23: a tick whose Source Sync succeeded without new content loads no
\* configuration and sends the Scheduler nothing; whenever a tick has loaded
\* the configuration or sent a message, its sync had brought a change.
C23_NoChangeSendsNothing ==
    /\ reported = "no change" =>
          /\ TickEnded
          /\ LastOutcome = "no_change"
          /\ loaded = None
          /\ SentThisTick = <<>>
    /\ (loaded.some \/ SentThisTick # <<>> \/ dpc \in {"reload", "send_sync", "send_config"})
          => reported = "change"

C23_Witness ==
    /\ outcomes = <<"updated", "no_change">>
    /\ dpc = "wait"
    /\ upVer = 2
    /\ Len(sent) = 2
    /\ sentAtTick = 2
    /\ reported = "no change"
    /\ loaded = None

\* C24: the Scheduler and the Sync Driver are started only after the initial
\* Source Sync, the initial load of the configuration and the
\* materialization of every initial job's directory have succeeded. When one
\* of them fails the process ends with that error: neither is ever started,
\* no job is ever triggered, and nothing happens afterwards.
C24_StartupBeforeScheduling ==
    /\ (mainPc = "running" \/ dpc # "off" \/ schedUp) =>
          /\ boot.synced
          /\ boot.loaded
          /\ boot.dirs = ConfigJobs(1)
          /\ boot.err = "none"
          /\ registry = ConfigJobs(1)
    /\ boot.err # "none" <=> mainPc = "failed"
    /\ mainPc # "running" =>
          /\ dpc = "off"
          /\ ~schedUp
          /\ \A j \in SchedJobs : trigs[j] = 0 /\ started[j] = 0 /\ units[j] = 0
    /\ mainPc = "failed" => ~ENABLED StartupNext

C24_Witness ==
    /\ mainPc = "failed"
    /\ boot.err = "dirs"
    /\ boot.synced
    /\ boot.loaded
    /\ boot.dirs # {}
    /\ boot.dirs # ConfigJobs(1)

IsEnvRead(e) == e.ev = "env"
IsSpawn(e) == e.ev = "spawn"
EnvReads == SelectSeq(etrace, IsEnvRead)
SpawnsOf(n) == {i \in 1..Len(etrace) : IsSpawn(etrace[i]) /\ etrace[i].n = n}

\* C25: every attempt reads the .env file of the working directory anew,
\* before the command is spawned. A missing file gives no overrides and the
\* command is spawned; a file that does not parse ends the attempt as
\* ExecError without a spawn, and that attempt counts against the retry
\* budget like any other.
C25_EnvReadEachAttempt ==
    LET atts == Attempts(elog)
    IN /\ Len(EnvReads) <= AttemptBudget
       /\ Len(atts) <= Len(EnvReads)
       /\ Len(EnvReads) <= Len(atts) + 1
       /\ \A i \in 1..Len(etrace) :
             IsSpawn(etrace[i]) =>
                /\ i > 1
                /\ IsEnvRead(etrace[i - 1])
                /\ etrace[i - 1].n = etrace[i].n
                /\ etrace[i - 1].file # "malformed"
                /\ etrace[i - 1].file = "missing" => etrace[i].vars = {}
                /\ etrace[i - 1].file = "valid" => etrace[i].vars = EnvVars
       /\ \A k \in 1..Len(atts) :
             /\ EnvReads[k].n = atts[k].n
             /\ EnvReads[k].file = "malformed" <=> atts[k].res = ExecError("env")
             /\ EnvReads[k].file = "malformed" => SpawnsOf(atts[k].n) = {}
             /\ EnvReads[k].file # "malformed" => Cardinality(SpawnsOf(atts[k].n)) = 1
       /\ epc = "spawn" =>
             /\ etrace # <<>>
             /\ IsEnvRead(etrace[Len(etrace)])
             /\ etrace[Len(etrace)].n = attempt
       /\ eprocs.shell = "alive" => Cardinality(SpawnsOf(attempt)) = 1

C25_Witness ==
    /\ epc = "returned"
    /\ Len(etrace) = 4
    /\ etrace[1] = EnvRead(etrace[1].n, "malformed")
    /\ etrace[2] = EnvRead(etrace[2].n, "missing")
    /\ etrace[3] = Spawned(etrace[2].n, {}, TRUE)
    /\ etrace[4] = EnvRead(etrace[4].n, "malformed")
    /\ AttemptResults = <<ExecError("env"), Completed(1), ExecError("env")>>
    /\ AttemptBudget = 3

====
